---- MODULE Spec2Model ----
(***************************************************************************)
(* The stand-alone concurrency examples of the repository, as one state    *)
(* machine.  Every example is a small program (a sequence of statements    *)
(* per thread); `ex` selects the example that runs, and one action per     *)
(* kind of statement executes the statement a thread is positioned at.     *)
(*                                                                         *)
(*   src/src/main.rs               spawn, join, panic, scope, Builder      *)
(*   src/shared_ownership/main.rs  Arc, RefCell, RwLock, Mutex             *)
(***************************************************************************)
EXTENDS Integers, Sequences, FiniteSets

VARIABLES
    ex,       \* the example that runs
    pc,       \* per thread: index of its next statement in its program
    st,       \* per thread: unstarted | running | finished | panicked | deadlocked
    out,      \* console output so far: sequence of [th, text, val]
    joinRes,  \* per thread: result main got from join() on it: none | Ok | Err
    numbers,  \* the Vec `numbers` of the scoped example: none | live | dropped
    idx,      \* position of the `for n in &numbers` loop
    strong,   \* the Arc's strong count
    holders,  \* the live Arc handles (by binding name)
    freed,    \* number of times the Arc's array has been freed
    freeing,  \* threads between the decrement to 0 and the free, inside drop
    lock,     \* state word of the example's RwLock/Mutex/RefCell:
              \*   0 free, n > 0 shared n times, -1 held exclusively
    guards,   \* the live guards / borrows: [g, kind, owner]
    value,    \* the integer inside the RwLock/Mutex/RefCell
    started,  \* number of threads Builder::spawn has started
    handle    \* what the Builder example's spawn expression yielded

vars == <<ex, pc, st, out, joinRes, numbers, idx, strong, holders, freed,
          freeing, lock, guards, value, started, handle>>

Threads == {"main", "t1", "t2"}

Examples == {"spawn", "join", "panic", "scoped", "arc_clone", "arc_naming",
             "refcell", "rwlock", "mutex",
             "builder_unwrap", "builder_expect", "builder_match"}

(***************************************************************************)
(* Program constants.                                                      *)
(***************************************************************************)
NumbersLen == 3
RefCellInit == 1
RwLockInit == 10
RwLockAdd == 5
MutexInit == 0

(***************************************************************************)
(* The programs.                                                           *)
(***************************************************************************)
\* fn f()
F ==
    << [op |-> "print", text |-> "Hello from another thread!"],
       [op |-> "print", text |-> "This is my thread id"],
       [op |-> "ret"] >>

\* the first example with the joins of the second one added
SpawnMainJoining ==
    << [op |-> "spawn", t |-> "t1"],
       [op |-> "spawn", t |-> "t2"],
       [op |-> "print", text |-> "Hello from the main thread."],
       [op |-> "join", t |-> "t1"],
       [op |-> "join", t |-> "t2"],
       [op |-> "ret"] >>

\* main of the first example: two spawns, no join
SpawnMain ==
    << [op |-> "spawn", t |-> "t1"],
       [op |-> "spawn", t |-> "t2"],
       [op |-> "print", text |-> "Hello from the main thread."],
       [op |-> "ret"] >>

\* main of the join-handle example
JoinMain ==
    << [op |-> "spawn", t |-> "t1"],
       [op |-> "spawn", t |-> "t2"],
       [op |-> "print", text |-> "Hello from the main thread."],
       [op |-> "join", t |-> "t1"],
       [op |-> "join", t |-> "t2"],
       [op |-> "ret"] >>

\* main of the panic example, and its closure
PanicMain ==
    << [op |-> "spawn", t |-> "t1"],
       [op |-> "join", t |-> "t1"],
       [op |-> "ret"] >>

PanicClosure ==
    << [op |-> "panic"] >>

\* main of the example Scoped /1 and its two closures
ScopedMain ==
    << [op |-> "vec_new"],
       [op |-> "spawn", t |-> "t1"],
       [op |-> "spawn", t |-> "t2"],
       [op |-> "scope_end", ts |-> {"t1", "t2"}],
       [op |-> "vec_drop"],
       [op |-> "ret"] >>

ScopedLen ==
    << [op |-> "vec_len"],
       [op |-> "ret"] >>

ScopedLoop ==
    << [op |-> "vec_for"],
       [op |-> "ret"] >>

\* the Arc clone example: a and b are moved into the two closures
ArcCloneMain ==
    << [op |-> "arc_new", h |-> "a"],
       [op |-> "arc_clone", h |-> "b"],
       [op |-> "spawn", t |-> "t1"],
       [op |-> "spawn", t |-> "t2"],
       [op |-> "ret"] >>

ArcClosure(h) ==
    << [op |-> "arc_read", h |-> h],
       [op |-> "arc_drop", h |-> h],
       [op |-> "ret"] >>

\* the Arc "smart naming" example: the clone shadows a inside the block
ArcNamingMain ==
    << [op |-> "arc_new", h |-> "a"],
       [op |-> "arc_clone", h |-> "a_inner"],
       [op |-> "spawn", t |-> "t1"],
       [op |-> "arc_read", h |-> "a"],
       [op |-> "arc_drop", h |-> "a"],
       [op |-> "ret"] >>

\* the RefCell example with the mutable borrow kept in a binding
RefCellMainKeepsBorrow ==
    << [op |-> "cell_new", v |-> RefCellInit],
       [op |-> "borrow_mut", g |-> "m"],
       [op |-> "add", n |-> 1],
       [op |-> "borrow", g |-> "tmp"],
       [op |-> "print_value", label |-> ""],
       [op |-> "release", g |-> "tmp"],
       [op |-> "release", g |-> "m"],
       [op |-> "ret"] >>

\* the RefCell example; a temporary borrow lives to the end of its statement
RefCellMain ==
    << [op |-> "cell_new", v |-> RefCellInit],
       [op |-> "borrow_mut", g |-> "tmp"],
       [op |-> "add", n |-> 1],
       [op |-> "release", g |-> "tmp"],
       [op |-> "borrow", g |-> "tmp"],
       [op |-> "print_value", label |-> ""],
       [op |-> "release", g |-> "tmp"],
       [op |-> "ret"] >>

\* main of the RwLock example; w lives to the end of main
RwLockMain ==
    << [op |-> "cell_new", v |-> RwLockInit],
       [op |-> "read", g |-> "r"],
       [op |-> "print_value", label |-> "Read: "],
       [op |-> "release", g |-> "r"],
       [op |-> "write", g |-> "w"],
       [op |-> "add", n |-> RwLockAdd],
       [op |-> "read", g |-> "tmp"],
       [op |-> "print_value", label |-> "Final: "],
       [op |-> "release", g |-> "tmp"],
       [op |-> "release", g |-> "w"],
       [op |-> "ret"] >>

\* the Mutex example with the first guard kept in a binding
MutexMainKeepsGuard ==
    << [op |-> "cell_new", v |-> MutexInit],
       [op |-> "mx_lock", g |-> "m"],
       [op |-> "add", n |-> 1],
       [op |-> "mx_lock", g |-> "tmp"],
       [op |-> "add", n |-> 1],
       [op |-> "release", g |-> "tmp"],
       [op |-> "mx_lock", g |-> "tmp"],
       [op |-> "print_value", label |-> ""],
       [op |-> "release", g |-> "tmp"],
       [op |-> "release", g |-> "m"],
       [op |-> "ret"] >>

\* main of the Mutex example; each guard is a temporary of its statement
MutexMain ==
    << [op |-> "cell_new", v |-> MutexInit],
       [op |-> "mx_lock", g |-> "tmp"],
       [op |-> "add", n |-> 1],
       [op |-> "release", g |-> "tmp"],
       [op |-> "mx_lock", g |-> "tmp"],
       [op |-> "add", n |-> 1],
       [op |-> "release", g |-> "tmp"],
       [op |-> "mx_lock", g |-> "tmp"],
       [op |-> "print_value", label |-> ""],
       [op |-> "release", g |-> "tmp"],
       [op |-> "ret"] >>

\* the three Builder snippets
BuilderMain(mode) ==
    << [op |-> "builder_spawn", t |-> "t1", mode |-> mode],
       [op |-> "ret"] >>

BuilderClosure ==
    << [op |-> "ret"] >>

Prog(e, th) ==
    CASE e = "spawn" -> IF th = "main" THEN SpawnMain ELSE F
      [] e = "join" -> IF th = "main" THEN JoinMain ELSE F
      [] e = "panic" -> IF th = "main" THEN PanicMain ELSE PanicClosure
      [] e = "scoped" ->
            IF th = "main" THEN ScopedMain
            ELSE IF th = "t1" THEN ScopedLen ELSE ScopedLoop
      [] e = "arc_clone" ->
            IF th = "main" THEN ArcCloneMain
            ELSE IF th = "t1" THEN ArcClosure("a") ELSE ArcClosure("b")
      [] e = "arc_naming" ->
            IF th = "main" THEN ArcNamingMain ELSE ArcClosure("a_inner")
      [] e = "refcell" -> IF th = "main" THEN RefCellMain ELSE << >>
      [] e = "rwlock" -> IF th = "main" THEN RwLockMain ELSE << >>
      [] e = "mutex" -> IF th = "main" THEN MutexMain ELSE << >>
      [] e = "builder_unwrap" ->
            IF th = "main" THEN BuilderMain("unwrap") ELSE BuilderClosure
      [] e = "builder_expect" ->
            IF th = "main" THEN BuilderMain("expect") ELSE BuilderClosure
      [] e = "builder_match" ->
            IF th = "main" THEN BuilderMain("match") ELSE BuilderClosure

(***************************************************************************)
(* Helpers.                                                                *)
(***************************************************************************)
\* the process ends when the main thread returns or panics; a main thread
\* parked forever keeps the process (and nothing else) alive
Exited == st["main"] \in {"finished", "panicked"}

Runnable(th) == st[th] = "running" /\ ~Exited

Instr(th) == Prog(ex, th)[pc[th]]

At(th, op) ==
    /\ Runnable(th)
    /\ pc[th] \in 1..Len(Prog(ex, th))
    /\ Instr(th).op = op

Advance(th) == pc' = [pc EXCEPT ![th] = @ + 1]

Terminated(t) == st[t] \in {"finished", "panicked"}

Init ==
    /\ ex \in Examples
    /\ pc = [t \in Threads |-> 1]
    /\ st = [t \in Threads |-> IF t = "main" THEN "running" ELSE "unstarted"]
    /\ out = << >>
    /\ joinRes = [t \in Threads |-> "none"]
    /\ numbers = "none"
    /\ idx = 0
    /\ strong = 0
    /\ holders = {}
    /\ freed = 0
    /\ freeing = {}
    /\ lock = 0
    /\ guards = {}
    /\ value = 0
    /\ started = 0
    /\ handle = "none"

vecVars == <<numbers, idx>>
arcVars == <<strong, holders, freed, freeing>>
cellVars == <<lock, guards, value>>
builderVars == <<started, handle>>

Line(th, text, val) == [th |-> th, text |-> text, val |-> val]

(***************************************************************************)
(* Threads: return, println!, spawn, join, panic!, scope.                  *)
(***************************************************************************)
\* a thread's function returns
Ret(th) ==
    /\ At(th, "ret")
    /\ st' = [st EXCEPT ![th] = "finished"]
    /\ Advance(th)
    /\ UNCHANGED <<ex, out, joinRes, vecVars, arcVars, cellVars, builderVars>>

\* println!(text)
Println(th) ==
    /\ At(th, "print")
    /\ out' = Append(out, Line(th, Instr(th).text, 0))
    /\ Advance(th)
    /\ UNCHANGED <<ex, st, joinRes, vecVars, arcVars, cellVars, builderVars>>

\* thread::spawn(f) and s.spawn(f): thread t starts at the top of its closure
Spawn(th) ==
    /\ At(th, "spawn")
    /\ st' = [st EXCEPT ![Instr(th).t] = "running"]
    /\ Advance(th)
    /\ UNCHANGED <<ex, out, joinRes, vecVars, arcVars, cellVars, builderVars>>

\* join() returns once the thread has terminated
JoinReadyNoWait(t) == TRUE

JoinReady(t) == Terminated(t)

\* join() yields Err if the thread panicked, Ok otherwise
JoinResultAlwaysOk(t) == "Ok"

JoinResult(t) == IF st[t] = "panicked" THEN "Err" ELSE "Ok"

\* t.join().unwrap() and t.join().expect(..): Err panics the caller
Join(th) ==
    /\ At(th, "join")
    /\ JoinReady(Instr(th).t)
    /\ joinRes' = [joinRes EXCEPT ![Instr(th).t] = JoinResult(Instr(th).t)]
    /\ IF JoinResult(Instr(th).t) = "Err"
       THEN st' = [st EXCEPT ![th] = "panicked"] /\ UNCHANGED pc
       ELSE Advance(th) /\ UNCHANGED st
    /\ UNCHANGED <<ex, out, vecVars, arcVars, cellVars, builderVars>>

\* panic!(..)
Panic(th) ==
    /\ At(th, "panic")
    /\ st' = [st EXCEPT ![th] = "panicked"]
    /\ UNCHANGED <<ex, pc, out, joinRes, vecVars, arcVars, cellVars, builderVars>>

\* thread::scope returns once every thread spawned in it has terminated
ScopeReadyNoWait(ts) == TRUE

ScopeReady(ts) == \A t \in ts : Terminated(t)

\* the end of thread::scope(|s| { .. }): joins the scoped threads, and
\* panics if one of them panicked
ScopeEnd(th) ==
    /\ At(th, "scope_end")
    /\ ScopeReady(Instr(th).ts)
    /\ IF \E t \in Instr(th).ts : st[t] = "panicked"
       THEN st' = [st EXCEPT ![th] = "panicked"] /\ UNCHANGED pc
       ELSE Advance(th) /\ UNCHANGED st
    /\ UNCHANGED <<ex, out, joinRes, vecVars, arcVars, cellVars, builderVars>>

(***************************************************************************)
(* The Vec of the scoped example.                                          *)
(***************************************************************************)
\* let numbers = vec![1, 2, 3];
VecNew(th) ==
    /\ At(th, "vec_new")
    /\ numbers' = "live"
    /\ Advance(th)
    /\ UNCHANGED <<ex, st, out, joinRes, idx, arcVars, cellVars, builderVars>>

\* numbers goes out of scope at the end of main
VecDrop(th) ==
    /\ At(th, "vec_drop")
    /\ numbers' = "dropped"
    /\ Advance(th)
    /\ UNCHANGED <<ex, st, out, joinRes, idx, arcVars, cellVars, builderVars>>

\* println!("length: {}", numbers.len());
VecLen(th) ==
    /\ At(th, "vec_len")
    /\ out' = Append(out, Line(th, "length: ", NumbersLen))
    /\ Advance(th)
    /\ UNCHANGED <<ex, st, joinRes, vecVars, arcVars, cellVars, builderVars>>

\* for n in &numbers { println!("{n}"); }: one element per step
VecFor(th) ==
    /\ At(th, "vec_for")
    /\ IF idx < NumbersLen
       THEN /\ out' = Append(out, Line(th, "", idx + 1))
            /\ idx' = idx + 1
            /\ UNCHANGED pc
       ELSE /\ Advance(th)
            /\ UNCHANGED <<out, idx>>
    /\ UNCHANGED <<ex, st, joinRes, numbers, arcVars, cellVars, builderVars>>

(***************************************************************************)
(* Arc.                                                                    *)
(***************************************************************************)
\* Arc::new(..): one handle, strong count 1
ArcNew(th) ==
    /\ At(th, "arc_new")
    /\ strong' = 1
    /\ holders' = {Instr(th).h}
    /\ Advance(th)
    /\ UNCHANGED <<ex, st, out, joinRes, vecVars, freed, freeing, cellVars,
                   builderVars>>

\* the strong count after a clone
CloneCountNoIncrement(n) == n

CloneCount(n) == n + 1

\* a.clone(): one more handle to the same array
ArcClone(th) ==
    /\ At(th, "arc_clone")
    /\ strong' = CloneCount(strong)
    /\ holders' = holders \cup {Instr(th).h}
    /\ Advance(th)
    /\ UNCHANGED <<ex, st, out, joinRes, vecVars, freed, freeing, cellVars,
                   builderVars>>

\* dbg!(a): reads the array through the handle
ArcRead(th) ==
    /\ At(th, "arc_read")
    /\ out' = Append(out, Line(th, "[1, 2, 3]", 0))
    /\ Advance(th)
    /\ UNCHANGED <<ex, st, joinRes, vecVars, arcVars, cellVars, builderVars>>

\* drop of a handle, first half: the atomic decrement; the thread that
\* brought the count to 0 goes on to free the array
ArcDrop(th) ==
    /\ At(th, "arc_drop")
    /\ th \notin freeing
    /\ strong' = strong - 1
    /\ holders' = holders \ {Instr(th).h}
    /\ IF strong = 1
       THEN freeing' = freeing \cup {th} /\ UNCHANGED pc
       ELSE Advance(th) /\ UNCHANGED freeing
    /\ UNCHANGED <<ex, st, out, joinRes, vecVars, freed, cellVars, builderVars>>

\* drop of a handle, second half: the array is freed
ArcFree(th) ==
    /\ At(th, "arc_drop")
    /\ th \in freeing
    /\ freed' = freed + 1
    /\ freeing' = freeing \ {th}
    /\ Advance(th)
    /\ UNCHANGED <<ex, st, out, joinRes, vecVars, strong, holders, cellVars,
                   builderVars>>

(***************************************************************************)
(* RefCell, RwLock and Mutex.                                              *)
(***************************************************************************)
Guard(g, kind, th) == [g |-> g, kind |-> kind, owner |-> th]

HeldBy(th) == \E x \in guards : x.owner = th

\* the state word that goes with a set of live guards
LockWord(gs) ==
    IF \E x \in gs : x.kind = "exclusive" THEN -1 ELSE Cardinality(gs)

\* RefCell::new(v), RwLock::new(v), Mutex::new(v)
CellNew(th) ==
    /\ At(th, "cell_new")
    /\ value' = Instr(th).v
    /\ lock' = 0
    /\ guards' = {}
    /\ Advance(th)
    /\ UNCHANGED <<ex, st, out, joinRes, vecVars, arcVars, builderVars>>

\* a shared borrow / read lock can be granted unless held exclusively
CanShareAlways(l) == TRUE

CanShare(l) == l >= 0

\* an exclusive borrow / write lock / mutex lock needs the cell free
CanExclusiveAlways(l) == TRUE

CanExclusive(l) == l = 0

\* the request is granted: the caller gets guard g
Grant(th, kind) ==
    /\ guards' = guards \cup {Guard(Instr(th).g, kind, th)}
    /\ lock' = IF kind = "exclusive" THEN -1 ELSE lock + 1
    /\ Advance(th)
    /\ UNCHANGED st

\* the caller panics; unwinding drops the guards it holds
Unwind(th) ==
    /\ st' = [st EXCEPT ![th] = "panicked"]
    /\ guards' = {x \in guards : x.owner # th}
    /\ lock' = LockWord({x \in guards : x.owner # th})
    /\ UNCHANGED pc

\* a lock request that cannot be granted.  Held by another thread: the
\* caller waits (no step).  Held by the caller itself: nobody else can
\* release it; std documents that the call then either never returns or
\* panics, depending on the platform's lock implementation.
Wait(th) ==
    /\ HeldBy(th)
    /\ \E o \in {"deadlocked", "panicked"} :
          IF o = "panicked"
          THEN Unwind(th)
          ELSE st' = [st EXCEPT ![th] = o] /\ UNCHANGED <<pc, lock, guards>>

\* x.borrow(): panics if x is mutably borrowed
Borrow(th) ==
    /\ At(th, "borrow")
    /\ IF CanShare(lock) THEN Grant(th, "shared") ELSE Unwind(th)
    /\ UNCHANGED <<ex, out, joinRes, vecVars, arcVars, value, builderVars>>

\* x.borrow_mut(): panics if x is borrowed at all
BorrowMut(th) ==
    /\ At(th, "borrow_mut")
    /\ IF CanExclusive(lock) THEN Grant(th, "exclusive") ELSE Unwind(th)
    /\ UNCHANGED <<ex, out, joinRes, vecVars, arcVars, value, builderVars>>

\* value.read().unwrap()
Read(th) ==
    /\ At(th, "read")
    /\ IF CanShare(lock) THEN Grant(th, "shared") ELSE Wait(th)
    /\ UNCHANGED <<ex, out, joinRes, vecVars, arcVars, value, builderVars>>

\* value.write().unwrap()
Write(th) ==
    /\ At(th, "write")
    /\ IF CanExclusive(lock) THEN Grant(th, "exclusive") ELSE Wait(th)
    /\ UNCHANGED <<ex, out, joinRes, vecVars, arcVars, value, builderVars>>

\* counter.lock().unwrap()
MxLock(th) ==
    /\ At(th, "mx_lock")
    /\ IF CanExclusive(lock) THEN Grant(th, "exclusive") ELSE Wait(th)
    /\ UNCHANGED <<ex, out, joinRes, vecVars, arcVars, value, builderVars>>

\* a guard is dropped: drop(r), the end of the statement that created a
\* temporary guard, the end of main
Release(th) ==
    /\ At(th, "release")
    /\ \E x \in guards :
          /\ x.g = Instr(th).g
          /\ x.owner = th
          /\ guards' = guards \ {x}
          /\ lock' = IF x.kind = "exclusive" THEN 0 ELSE lock - 1
    /\ Advance(th)
    /\ UNCHANGED <<ex, st, out, joinRes, vecVars, arcVars, value, builderVars>>

\* *guard += n
Add(th) ==
    /\ At(th, "add")
    /\ value' = value + Instr(th).n
    /\ Advance(th)
    /\ UNCHANGED <<ex, st, out, joinRes, vecVars, arcVars, lock, guards,
                   builderVars>>

\* println!("..{}", *guard)
PrintlnValue(th) ==
    /\ At(th, "print_value")
    /\ out' = Append(out, Line(th, Instr(th).label, value))
    /\ Advance(th)
    /\ UNCHANGED <<ex, st, joinRes, vecVars, arcVars, cellVars, builderVars>>

(***************************************************************************)
(* thread::Builder.                                                        *)
(***************************************************************************)
\* what each snippet does with Err(e) from builder.spawn
SpawnFailureAlwaysPanics(mode) == "panic"

SpawnFailure(mode) == IF mode = "match" THEN "return" ELSE "panic"

\* builder.spawn(closure), with .unwrap(), .expect(..) or the match
BuilderSpawn(th) ==
    /\ At(th, "builder_spawn")
    /\ \E res \in {"Ok", "Err"} :
          IF res = "Ok"
          THEN /\ started' = started + 1
               /\ handle' = Instr(th).t
               /\ st' = [st EXCEPT ![Instr(th).t] = "running"]
               /\ Advance(th)
               /\ UNCHANGED out
          ELSE /\ UNCHANGED <<started, handle, pc>>
               /\ IF SpawnFailure(Instr(th).mode) = "return"
                  THEN /\ out' = Append(out, Line(th, "Thread spawn failed", 0))
                       /\ st' = [st EXCEPT ![th] = "finished"]
                  ELSE /\ st' = [st EXCEPT ![th] = "panicked"]
                       /\ UNCHANGED out
    /\ UNCHANGED <<ex, joinRes, vecVars, arcVars, cellVars>>

(***************************************************************************)
(* The specification.                                                      *)
(***************************************************************************)
Step(th) ==
    \/ Ret(th)
    \/ Println(th)
    \/ Spawn(th)
    \/ Join(th)
    \/ Panic(th)
    \/ ScopeEnd(th)
    \/ VecNew(th)
    \/ VecDrop(th)
    \/ VecLen(th)
    \/ VecFor(th)
    \/ ArcNew(th)
    \/ ArcClone(th)
    \/ ArcRead(th)
    \/ ArcDrop(th)
    \/ ArcFree(th)
    \/ CellNew(th)
    \/ Borrow(th)
    \/ BorrowMut(th)
    \/ Read(th)
    \/ Write(th)
    \/ MxLock(th)
    \/ Release(th)
    \/ Add(th)
    \/ PrintlnValue(th)
    \/ BuilderSpawn(th)

Next == \E th \in Threads : Step(th)

Spec == Init /\ [][Next]_vars

(***************************************************************************)
(* Properties.                                                             *)
(***************************************************************************)
Spawned == {"t1", "t2"}

\* the number of lines thread th has printed
LinesOf(th) == Cardinality({i \in 1..Len(out) : out[i].th = th})

Printed(th, text, val) == \E i \in 1..Len(out) : out[i] = Line(th, text, val)

\* C1: in the join-handle example main does not end (return or panic)
\* before both spawned threads have finished, each having printed its two
\* lines; and each join returns only after its thread has finished.
C1_MainOutlivesJoinedThreads ==
    ex = "join" =>
        /\ \A t \in Spawned :
              joinRes[t] # "none" => st[t] = "finished" /\ LinesOf(t) = 2
        /\ Exited =>
              \A t \in Spawned :
                 /\ st[t] = "finished"
                 /\ Printed(t, "Hello from another thread!", 0)
                 /\ Printed(t, "This is my thread id", 0)
                 /\ LinesOf(t) = 2

C1_Witness ==
    /\ ex = "join"
    /\ st["main"] = "finished"
    /\ joinRes["t1"] = "Ok"
    /\ joinRes["t2"] = "Ok"

\* C2: join() yields Err exactly when the joined thread panicked; in the
\* panic example the closure panics, join yields Err, and main panics too
\* instead of returning.
C2_JoinErrIffPanicked ==
    /\ \A t \in Spawned :
          joinRes[t] # "none" => (joinRes[t] = "Err" <=> st[t] = "panicked")
    /\ ex = "panic" =>
          /\ st["main"] # "finished"
          /\ joinRes["t1"] \in {"none", "Err"}
          /\ joinRes["t1"] = "Err" => st["main"] = "panicked"
          /\ st["t1"] # "finished"

C2_Witness ==
    /\ ex = "panic"
    /\ st["t1"] = "panicked"
    /\ joinRes["t1"] = "Err"
    /\ st["main"] = "panicked"

\* main of the scoped example has left thread::scope
PastScope ==
    /\ ex = "scoped"
    /\ numbers # "none"
    /\ \/ pc["main"] > Len(ScopedMain)
       \/ ScopedMain[pc["main"]].op \in {"vec_drop", "ret"}

\* C3: in the example Scoped /1, once thread::scope has returned both
\* scoped threads have finished and the length line and the three element
\* lines are printed; numbers is not dropped while a scoped thread is
\* unfinished.
C3_ScopeJoinsItsThreads ==
    ex = "scoped" =>
        /\ PastScope =>
              /\ \A t \in Spawned : st[t] = "finished"
              /\ Printed("t1", "length: ", NumbersLen)
              /\ \A n \in 1..NumbersLen : Printed("t2", "", n)
              /\ Len(out) = NumbersLen + 1
        /\ numbers = "dropped" => \A t \in Spawned : st[t] = "finished"
        /\ st["main"] # "panicked"

C3_Witness ==
    /\ PastScope
    /\ numbers = "dropped"
    /\ st["main"] = "finished"

\* C4: in the first example nothing makes main wait for the spawned
\* threads: whatever they have done so far, main's next statement can run,
\* so main can end while a spawned thread still has output to print.
C4_MainNeverWaits ==
    (ex = "spawn" /\ st["main"] = "running") => ENABLED Step("main")

C4_Witness ==
    /\ ex = "spawn"
    /\ st["main"] = "finished"
    /\ \E t \in Spawned : st[t] # "finished" /\ LinesOf(t) < 2

\* C5: in the Arc examples the strong count is the number of live handles
\* (2 after a.clone()), the array is not freed while a handle is live, it
\* is freed at most once, only by the drop of the last handle, and every
\* dbg! reads a live array through a live handle.
C5_ArcFreedWithLastHandle ==
    ex \in {"arc_clone", "arc_naming"} =>
        /\ strong = Cardinality(holders)
        /\ holders # {} => freed = 0
        /\ freed <= 1
        /\ (pc["main"] > 1 /\ holders = {}) => (freed = 1 \/ freeing # {})
        /\ (pc["main"] = 3 /\ st["t1"] = "unstarted") => strong = 2
        /\ \A th \in Threads :
              At(th, "arc_read") => Instr(th).h \in holders /\ freed = 0

C5_Witness ==
    /\ ex = "arc_naming"
    /\ At("main", "arc_read")
    /\ "a_inner" \notin holders
    /\ freed = 0

\* C6: in the RwLock example a write guard is never live together with
\* another guard, and a request that cannot be granted blocks the caller
\* and does not panic.
C6_WriterExclusiveAndBlocking ==
    ex = "rwlock" =>
        /\ \A x \in guards : x.kind = "exclusive" => guards = {x}
        /\ st["main"] # "panicked"

\* C7: in the Mutex example every lock() finds the mutex unlocked, at most
\* one guard is live, main is never stuck and does not panic, and it ends
\* having printed 2.
C7_MutexStatementsNeverBlock ==
    ex = "mutex" =>
        /\ Cardinality(guards) <= 1
        /\ At("main", "mx_lock") => lock = 0 /\ guards = {}
        /\ st["main"] \in {"running", "finished"}
        /\ st["main"] = "running" => ENABLED Step("main")
        /\ st["main"] = "finished" => out = << Line("main", "", 2) >>

C7_Witness ==
    /\ ex = "mutex"
    /\ st["main"] = "finished"
    /\ value = 2

\* main's builder.spawn statement has failed
SpawnFailed == pc["main"] = 1 /\ st["main"] # "running"

\* C8: Builder::spawn either fails, and then no thread is started and no
\* handle is produced: the match variant logs the error and returns, the
\* unwrap and expect variants panic; or it succeeds, and then exactly one
\* thread is started and its handle is yielded.
C8_BuilderSpawnReportsFailure ==
    ex \in {"builder_unwrap", "builder_expect", "builder_match"} =>
        /\ SpawnFailed =>
              /\ started = 0
              /\ handle = "none"
              /\ \A t \in Spawned : st[t] = "unstarted"
              /\ IF ex = "builder_match"
                 THEN /\ st["main"] = "finished"
                      /\ out = << Line("main", "Thread spawn failed", 0) >>
                 ELSE st["main"] = "panicked"
        /\ pc["main"] > 1 =>
              /\ started = 1
              /\ handle = "t1"
              /\ st["t1"] # "unstarted"
              /\ st["t2"] = "unstarted"
              /\ st["main"] # "panicked"
              /\ out = << >>

C8_Witness ==
    /\ ex = "builder_match"
    /\ SpawnFailed
    /\ st["main"] = "finished"

\* C9: main of the RwLock example is never stuck and does not panic, and
\* it ends having printed "Read: 10" and then "Final: 15".
C9_RwLockMainCompletes ==
    ex = "rwlock" =>
        /\ st["main"] \in {"running", "finished"}
        /\ st["main"] = "running" => ENABLED Step("main")
        /\ st["main"] = "finished" =>
              out = << Line("main", "Read: ", RwLockInit),
                       Line("main", "Final: ", RwLockInit + RwLockAdd) >>

====
